---------------------------- MODULE Spec2Model ----------------------------
(***************************************************************************)
(* HTM (hierarchical triangular mesh) pixelization of the unit sphere:     *)
(* the index codec (level, toString), the reverse resolver (triangle),     *)
(* the forward locator (index) and the region rasterizer (HtmPixelFinder)  *)
(* of src/src/HtmPixelization.cc.                                          *)
(*                                                                         *)
(* Representation.                                                         *)
(*  - An identifier is a natural number below 2^IdBits (uint64_t in the    *)
(*    code; the width is scaled with MAX_LEVEL so that, as in the code,    *)
(*    well-formed identifiers of a level above MAX_LEVEL exist).           *)
(*  - A vertex is a term: <<x, y, z>> for UnitVector3d::fromNormalized     *)
(*    (x, y, z), and <<a, b>> for UnitVector3d(a + b), the normalized sum  *)
(*    of the vertices a and b.  Equal terms denote equal vectors.          *)
(*  - A point handed to index() is known by the signs of its coordinates   *)
(*    (-1, 0, 1), which is all the root selection reads; the outcomes of   *)
(*    orientation() are inputs of each loop iteration.                     *)
(***************************************************************************)
EXTENDS Integers, Sequences, FiniteSets

VARIABLES pc, lvl, arg, retLevel, thrown, str, tri, pt, root, idx, loopL,
          region, mode, maxRanges, stack, ranges, frame

vars == <<pc, lvl, arg, retLevel, thrown, str, tri, pt, root, idx, loopL,
          region, mode, maxRanges, stack, ranges, frame>>

\* HtmPixelization::MAX_LEVEL is 24 in HtmPixelization.h; the model scales it.
MAX_LEVEL == 2

RECURSIVE Pow2(_)
Pow2(n) == IF n = 0 THEN 1 ELSE 2 * Pow2(n - 1)

\* Width of an identifier: room for the levels up to MAX_LEVEL + 1 and one
\* more bit (uint64_t against 2 * 24 + 4 bits in the code).
IdBits == 2 * MAX_LEVEL + 7

Ids == 0 .. (Pow2(IdBits) - 1)

\* x << n and x >> n on identifiers.
Shl(x, n) == (x * Pow2(n)) % Pow2(IdBits)
Shr(x, n) == x \div Pow2(n)

(***************************************************************************)
(* Root table.                                                             *)
(***************************************************************************)
HTM_ROOT_VERTEX ==
    << << << 1,  0, 0>>, <<0, 0, -1>>, << 0,  1, 0>> >>,
       << << 0,  1, 0>>, <<0, 0, -1>>, <<-1,  0, 0>> >>,
       << <<-1,  0, 0>>, <<0, 0, -1>>, << 0, -1, 0>> >>,
       << << 0, -1, 0>>, <<0, 0, -1>>, << 1,  0, 0>> >>,
       << << 1,  0, 0>>, <<0, 0,  1>>, << 0, -1, 0>> >>,
       << << 0, -1, 0>>, <<0, 0,  1>>, <<-1,  0, 0>> >>,
       << <<-1,  0, 0>>, <<0, 0,  1>>, << 0,  1, 0>> >>,
       << << 0,  1, 0>>, <<0, 0,  1>>, << 1,  0, 0>> >> >>

\* UnitVector3d::fromNormalized(HTM_ROOT_VERTEX[r][v][0..2])
RootVertex(r, v) == HTM_ROOT_VERTEX[r + 1][v + 1]

\* The triple (v0, v1, v2) of root r.
RootTriangle(r) == <<RootVertex(r, 0), RootVertex(r, 1), RootVertex(r, 2)>>

\* UnitVector3d(a + b)
Mid(a, b) == <<a, b>>

(***************************************************************************)
(* Index codec.                                                            *)
(***************************************************************************)
\* log2(x): index of the most significant 1 bit of x, and 0 for x = 0.
RECURSIVE log2(_)
log2(x) == IF x <= 1 THEN 0 ELSE 1 + log2(x \div 2)

\* HtmPixelization::level
level(i) ==
    LET j == log2(i)
    IN  IF (j % 2 = 0) \/ (j = 1) THEN -1 ELSE (j - 3) \div 2

\* Mutant: the test against MAX_LEVEL is missing.
BadInvalidIndex(i) == level(i) < 0

\* The validity test shared by triangle() and toString().
InvalidIndex(i) == level(i) < 0 \/ level(i) > MAX_LEVEL

\* The loop of triangle(): l is the shift of the next child code.
RECURSIVE triangleLoop(_, _, _)
triangleLoop(i, l, t) ==
    IF l < 0 THEN t
    ELSE LET child == Shr(i, l) % 4
             v0 == t[1]
             v1 == t[2]
             v2 == t[3]
             m12 == Mid(v1, v2)
             m20 == Mid(v2, v0)
             m01 == Mid(v0, v1)
             n == CASE child = 0 -> <<v0, m01, m20>>
                    [] child = 1 -> <<v1, m12, m01>>
                    [] child = 2 -> <<v2, m20, m12>>
                    [] child = 3 -> <<m12, m20, m01>>
         IN  triangleLoop(i, l - 2, n)

\* HtmPixelization::triangle, for an index that passed the validity test.
triangle(i) ==
    LET l == 2 * level(i)
        r == Shr(i, l) % 8
    IN  triangleLoop(i, l - 2, RootTriangle(r))

Digit(d) == CASE d = 0 -> "0" [] d = 1 -> "1" [] d = 2 -> "2" [] d = 3 -> "3"

\* The buffer char s[MAX_LEVEL + 2], not yet written.
EmptyBuffer == [k \in 1 .. (MAX_LEVEL + 2) |-> "?"]

\* Mutant: the hemisphere test is inverted.
RECURSIVE BadToStringHemi(_, _, _, _)
BadToStringHemi(l, p, i, s) ==
    IF l >= 0
    THEN BadToStringHemi(l - 1, p - 1, Shr(i, 2), [s EXCEPT ![p] = Digit(i % 4)])
    ELSE LET t == [s EXCEPT ![p] = IF i % 2 = 0 THEN "N" ELSE "S"]
         IN  SubSeq(t, p, MAX_LEVEL + 2)

\* Mutant: the loop stops one digit early (l > 0).
RECURSIVE BadToStringLoop(_, _, _, _)
BadToStringLoop(l, p, i, s) ==
    IF l > 0
    THEN BadToStringLoop(l - 1, p - 1, Shr(i, 2), [s EXCEPT ![p] = Digit(i % 4)])
    ELSE LET t == [s EXCEPT ![p] = IF i % 2 = 0 THEN "S" ELSE "N"]
         IN  SubSeq(t, p, MAX_LEVEL + 2)

\* Mutant: a digit is made of one bit only (i & 1).
RECURSIVE BadToStringDigit(_, _, _, _)
BadToStringDigit(l, p, i, s) ==
    IF l >= 0
    THEN BadToStringDigit(l - 1, p - 1, Shr(i, 2), [s EXCEPT ![p] = Digit(i % 2)])
    ELSE LET t == [s EXCEPT ![p] = IF i % 2 = 0 THEN "S" ELSE "N"]
         IN  SubSeq(t, p, MAX_LEVEL + 2)

\* The loop of toString() and what follows it: p is the (1-based) position
\* of the write pointer in s.
RECURSIVE toStringLoop(_, _, _, _)
toStringLoop(l, p, i, s) ==
    IF l >= 0
    THEN toStringLoop(l - 1, p - 1, Shr(i, 2), [s EXCEPT ![p] = Digit(i % 4)])
    ELSE LET t == [s EXCEPT ![p] = IF i % 2 = 0 THEN "S" ELSE "N"]
         IN  SubSeq(t, p, MAX_LEVEL + 2)

\* HtmPixelization::toString, for an index that passed the validity test.
toString(i) == toStringLoop(level(i), MAX_LEVEL + 2, i, EmptyBuffer)

(***************************************************************************)
(* Forward locator.                                                        *)
(***************************************************************************)
Signs == {-1, 0, 1}

\* The points: every combination of coordinate signs but the zero vector.
Points == {p \in Signs \X Signs \X Signs : p # <<0, 0, 0>>}

\* Mutant: with y = 0 and x < 0 the root on the y >= 0 side is taken.
BadSelectRootTie(v) ==
    LET x == v[1]
        y == v[2]
        z == v[3]
    IN  IF z < 0
        THEN IF y > 0 THEN (IF x > 0 THEN 0 ELSE 1)
             ELSE IF y = 0 THEN (IF x >= 0 THEN 0 ELSE 1)
             ELSE (IF x < 0 THEN 2 ELSE 3)
        ELSE IF y > 0 THEN (IF x > 0 THEN 7 ELSE 6)
             ELSE IF y = 0 THEN (IF x >= 0 THEN 7 ELSE 6)
             ELSE (IF x < 0 THEN 5 ELSE 4)

\* Mutant: the two northern roots of the y > 0 side are exchanged.
BadSelectRootSwap(v) ==
    LET x == v[1]
        y == v[2]
        z == v[3]
    IN  IF z < 0
        THEN IF y > 0 THEN (IF x > 0 THEN 0 ELSE 1)
             ELSE IF y = 0 THEN (IF x >= 0 THEN 0 ELSE 2)
             ELSE (IF x < 0 THEN 2 ELSE 3)
        ELSE IF y > 0 THEN (IF x > 0 THEN 6 ELSE 7)
             ELSE IF y = 0 THEN (IF x >= 0 THEN 7 ELSE 5)
             ELSE (IF x < 0 THEN 5 ELSE 4)

\* Root selection of index(): v = <<x, y, z>>.
selectRoot(v) ==
    LET x == v[1]
        y == v[2]
        z == v[3]
    IN  IF z < 0
        THEN IF y > 0 THEN (IF x > 0 THEN 0 ELSE 1)
             ELSE IF y = 0 THEN (IF x >= 0 THEN 0 ELSE 2)
             ELSE (IF x < 0 THEN 2 ELSE 3)
        ELSE IF y > 0 THEN (IF x > 0 THEN 7 ELSE 6)
             ELSE IF y = 0 THEN (IF x >= 0 THEN 7 ELSE 5)
             ELSE (IF x < 0 THEN 5 ELSE 4)

\* Mutant: child 2 keeps its midpoints in the order of child 1 (m12, m20).
BadIndexStepOrder(i, t, o1, o2, o3) ==
    LET v0 == t[1]
        v1 == t[2]
        v2 == t[3]
        m01 == Mid(v0, v1)
        m20 == Mid(v2, v0)
        m12 == Mid(v1, v2)
        j == Shl(i, 2)
    IN  IF o1 >= 0 THEN <<j, <<v0, m01, m20>> >>
        ELSE IF o2 >= 0 THEN <<j + 1, <<v1, m12, m01>> >>
        ELSE IF o3 >= 0 THEN <<j + 2, <<v2, m12, m20>> >>
        ELSE <<j + 3, <<m12, m20, m01>> >>

\* Mutant: the index is shifted by one bit, not two.
BadIndexStepShift(i, t, o1, o2, o3) ==
    LET v0 == t[1]
        v1 == t[2]
        v2 == t[3]
        m01 == Mid(v0, v1)
        m20 == Mid(v2, v0)
        m12 == Mid(v1, v2)
        j == Shl(i, 1)
    IN  IF o1 >= 0 THEN <<j, <<v0, m01, m20>> >>
        ELSE IF o2 >= 0 THEN <<j + 1, <<v1, m12, m01>> >>
        ELSE IF o3 >= 0 THEN <<j + 2, <<v2, m20, m12>> >>
        ELSE <<j + 3, <<m12, m20, m01>> >>

\* One iteration of the loop of index(): o1, o2, o3 are the outcomes of
\* orientation(v, m01, m20), orientation(v, m12, m01), orientation(v, m20, m12);
\* the result is the new <<i, <<v0, v1, v2>> >>.
indexStep(i, t, o1, o2, o3) ==
    LET v0 == t[1]
        v1 == t[2]
        v2 == t[3]
        m01 == Mid(v0, v1)
        m20 == Mid(v2, v0)
        m12 == Mid(v1, v2)
        j == Shl(i, 2)
    IN  IF o1 >= 0 THEN <<j, <<v0, m01, m20>> >>
        ELSE IF o2 >= 0 THEN <<j + 1, <<v1, m12, m01>> >>
        ELSE IF o3 >= 0 THEN <<j + 2, <<v2, m20, m12>> >>
        ELSE <<j + 3, <<m12, m20, m01>> >>

(***************************************************************************)
(* Region rasterizer.                                                      *)
(***************************************************************************)
\* Largest level the rasterizer is run at, largest number of patches of a
\* region, and largest finite interval budget.
FinderLevel == 1
MaxPatches == 2
MaxBudget == 1

\* An interval budget that is never reached (maxRanges "unlimited").
NoLimit == Pow2(IdBits)

Budgets == (0 .. MaxBudget) \cup {NoLimit}

\* The identifiers of the nodes of level l, and of the levels up to L.
LevelIds(l) == (8 * Pow2(2 * l)) .. (16 * Pow2(2 * l) - 1)
Nodes(L) == UNION {LevelIds(l) : l \in 0 .. L}

\* The level-L descendants of node i of level l: [i << 2(L-l), (i+1) << 2(L-l)).
RangeOf(i, l, L) == Shl(i, 2 * (L - l)) .. (Shl(i + 1, 2 * (L - l)) - 1)

\* The subsets of S of at most k elements.
RECURSIVE SubsetsUpTo(_, _)
SubsetsUpTo(S, k) ==
    IF k = 0 THEN {{}}
    ELSE LET T == SubsetsUpTo(S, k - 1)
         IN  T \cup {t \cup {x} : t \in T, x \in S}

\* A region, as the rasterizer of level L sees it: the nodes whose triangles
\* lie within the region, and the leaves whose triangles the boundary of the
\* region crosses.  Every other leaf is disjoint from the region unless it
\* lies under a node within it.
RegionsUpTo(L, k) ==
    LET patches == ({"within"} \X Nodes(L)) \cup ({"partial"} \X LevelIds(L))
        pick(t, kind) == {q[2] : q \in {x \in t : x[1] = kind}}
    IN  {[within |-> pick(t, "within"), partial |-> pick(t, "partial")] :
            t \in SubsetsUpTo(patches, k)}

\* The regions that cross exactly one leaf.
OneLeafRegions(L) == {[within |-> {}, partial |-> {p}] : p \in LevelIds(L)}

NoRegion == [within |-> {}, partial |-> {}]

\* The level-L leaves whose triangles lie within the region rg.
WithinLeaves(rg, L) == UNION {RangeOf(w, level(w), L) : w \in rg.within}

\* The level-L leaves whose triangles intersect the region rg.
TruePixels(rg, L) == WithinLeaves(rg, L) \cup rg.partial

\* The triangles of the mesh down to MAX_LEVEL, by identifier.
Trixels == [n \in Nodes(MAX_LEVEL) |-> triangle(n)]

\* The node whose triangle is the given one.
NodeOf(trixel, L) == CHOOSE n \in Nodes(L) : Trixels[n] = trixel

\* The relation of a triangle to the region rg.
relate(trixel, rg, L) ==
    LET n == NodeOf(trixel, L)
        leaves == RangeOf(n, level(n), L)
    IN  IF leaves \cap TruePixels(rg, L) = {} THEN "disjoint"
        ELSE IF leaves \subseteq WithinLeaves(rg, L) THEN "within"
        ELSE IF TruePixels(rg, L) \subseteq leaves THEN "contains"
        ELSE "partial"

\* RangeSet::size(): the number of maximal intervals of the set.
NumRanges(S) == Cardinality({x \in S : (x - 1) \notin S})

\* HtmPixelFinder::operator(): the calls of visit on the 8 roots.
rootVisits == [r \in 1 .. 8 |->
                 [trixel |-> RootTriangle(r - 1), index |-> (r - 1) + 8, level |-> 0]]

\* Mutant: the last ++index is missing.
BadSubdivideSkip(trixel, index, lev) ==
    LET mid == <<Mid(trixel[2], trixel[3]), Mid(trixel[3], trixel[1]),
                 Mid(trixel[1], trixel[2])>>
        i0 == Shl(index, 2)
        l1 == lev + 1
    IN  << [trixel |-> <<trixel[1], mid[3], mid[2]>>, index |-> i0, level |-> l1],
           [trixel |-> <<trixel[2], mid[1], mid[3]>>, index |-> i0 + 1, level |-> l1],
           [trixel |-> <<trixel[3], mid[2], mid[1]>>, index |-> i0 + 2, level |-> l1],
           [trixel |-> mid, index |-> i0 + 2, level |-> l1] >>

\* Mutant: children 1 and 2 are handed each other's triangle.
BadSubdivideSwap(trixel, index, lev) ==
    LET mid == <<Mid(trixel[2], trixel[3]), Mid(trixel[3], trixel[1]),
                 Mid(trixel[1], trixel[2])>>
        i0 == Shl(index, 2)
        l1 == lev + 1
    IN  << [trixel |-> <<trixel[1], mid[3], mid[2]>>, index |-> i0, level |-> l1],
           [trixel |-> <<trixel[3], mid[2], mid[1]>>, index |-> i0 + 1, level |-> l1],
           [trixel |-> <<trixel[2], mid[1], mid[3]>>, index |-> i0 + 2, level |-> l1],
           [trixel |-> mid, index |-> i0 + 3, level |-> l1] >>

\* HtmPixelFinder::subdivide: the four calls of visit, in order.
subdivide(trixel, index, lev) ==
    LET mid == <<Mid(trixel[2], trixel[3]), Mid(trixel[3], trixel[1]),
                 Mid(trixel[1], trixel[2])>>
        i0 == Shl(index, 2)
        l1 == lev + 1
    IN  << [trixel |-> <<trixel[1], mid[3], mid[2]>>, index |-> i0, level |-> l1],
           [trixel |-> <<trixel[2], mid[1], mid[3]>>, index |-> i0 + 1, level |-> l1],
           [trixel |-> <<trixel[3], mid[2], mid[1]>>, index |-> i0 + 2, level |-> l1],
           [trixel |-> mid, index |-> i0 + 3, level |-> l1] >>

\* What visit does with a triangle: "disjoint" (pruned), "full" (its range is
\* inserted), "leaf" (a crossed leaf), "coarse" (a crossed inner node, not
\* subdivided because of the budget) or "subdivide".
visitOutcome(call, rg, md, budget, rs, L) ==
    LET rel == relate(call.trixel, rg, L)
    IN  IF rel = "disjoint" THEN "disjoint"
        ELSE IF rel = "within" \/ (rel = "contains" /\ md = "envelope") THEN "full"
        ELSE IF call.level = L THEN "leaf"
        ELSE IF NumRanges(rs) >= budget THEN "coarse"
        ELSE "subdivide"

\* The ranges after visit: the envelope takes every triangle it does not
\* subdivide and cannot prune, the interior only those within the region.
visitRanges(call, out, md, rs, L) ==
    IF out = "full" \/ (out \in {"leaf", "coarse"} /\ md = "envelope")
    THEN rs \cup RangeOf(call.index, call.level, L)
    ELSE rs

(***************************************************************************)
(* The state machine: one call of the library at a time.                   *)
(***************************************************************************)
NoFrame == [index |-> 0, level |-> 0, outcome |-> "none"]

Init ==
    /\ pc = "start"
    /\ lvl = -1
    /\ arg = 0
    /\ retLevel = 0
    /\ thrown = FALSE
    /\ str = <<>>
    /\ tri = <<>>
    /\ pt = <<0, 0, 0>>
    /\ root = 0
    /\ idx = 0
    /\ loopL = 0
    /\ region = NoRegion
    /\ mode = "none"
    /\ maxRanges = 0
    /\ stack = <<>>
    /\ ranges = {}
    /\ frame = NoFrame

finderVars == <<region, mode, maxRanges, stack, ranges, frame>>
indexVars == <<pt, root, idx, loopL>>

\* level(i)
CallLevel ==
    /\ pc = "start"
    /\ \E i \in Ids :
        /\ arg' = i
        /\ retLevel' = level(i)
    /\ pc' = "level"
    /\ UNCHANGED <<lvl, thrown, str, tri>>
    /\ UNCHANGED indexVars
    /\ UNCHANGED finderVars

\* triangle(i)
CallTriangle ==
    /\ pc = "start"
    /\ \E i \in Ids :
        /\ arg' = i
        /\ IF InvalidIndex(i)
           THEN thrown' = TRUE /\ tri' = tri
           ELSE thrown' = FALSE /\ tri' = triangle(i)
    /\ pc' = "triangle"
    /\ UNCHANGED <<lvl, retLevel, str>>
    /\ UNCHANGED indexVars
    /\ UNCHANGED finderVars

\* toString(i)
CallToString ==
    /\ pc = "start"
    /\ \E i \in Ids :
        /\ arg' = i
        /\ IF InvalidIndex(i)
           THEN thrown' = TRUE /\ str' = str
           ELSE thrown' = FALSE /\ str' = toString(i)
    /\ pc' = "toString"
    /\ UNCHANGED <<lvl, retLevel, tri>>
    /\ UNCHANGED indexVars
    /\ UNCHANGED finderVars

\* HtmPixelization(level)
Construct ==
    /\ pc = "start"
    /\ \E lv \in -1 .. (MAX_LEVEL + 1) :
        /\ arg' = lv
        /\ IF lv < 0 \/ lv > MAX_LEVEL
           THEN thrown' = TRUE /\ lvl' = lvl /\ pc' = "failed"
           ELSE thrown' = FALSE /\ lvl' = lv /\ pc' = "ready"
    /\ UNCHANGED <<retLevel, str, tri>>
    /\ UNCHANGED indexVars
    /\ UNCHANGED finderVars

\* index(v): the root selection.
Index ==
    /\ pc = "ready"
    /\ \E v \in Points :
        /\ pt' = v
        /\ root' = selectRoot(v)
        /\ tri' = RootTriangle(selectRoot(v))
        /\ idx' = selectRoot(v) + 8
    /\ loopL' = 0
    /\ pc' = "index"
    /\ UNCHANGED <<lvl, arg, retLevel, thrown, str>>
    /\ UNCHANGED finderVars

\* index(v): one iteration of the descent.
IndexLoop ==
    /\ pc = "index"
    /\ loopL < lvl
    /\ \E o1 \in Signs, o2 \in Signs, o3 \in Signs :
        /\ idx' = indexStep(idx, tri, o1, o2, o3)[1]
        /\ tri' = indexStep(idx, tri, o1, o2, o3)[2]
    /\ loopL' = loopL + 1
    /\ UNCHANGED <<pc, lvl, arg, retLevel, thrown, str, pt, root>>
    /\ UNCHANGED finderVars

\* index(v): return i.
IndexReturn ==
    /\ pc = "index"
    /\ loopL >= lvl
    /\ pc' = "indexed"
    /\ UNCHANGED <<lvl, arg, retLevel, thrown, str, tri, pt, root, idx, loopL>>
    /\ UNCHANGED finderVars

\* _envelope(r, maxRanges) and _interior(r, maxRanges): findPixels starts the
\* traversal on the 8 roots.
Find(rgs, md) ==
    /\ pc = "ready"
    /\ \E rg \in rgs, b \in Budgets :
        /\ region' = rg
        /\ maxRanges' = b
    /\ mode' = md
    /\ stack' = rootVisits
    /\ ranges' = {}
    /\ frame' = NoFrame
    /\ pc' = "find"
    /\ UNCHANGED <<lvl, arg, retLevel, thrown, str, tri>>
    /\ UNCHANGED indexVars

\* One call of visit: the next pending one, in depth-first order.
Visit ==
    /\ pc = "find"
    /\ stack # <<>>
    /\ LET call == Head(stack)
           out == visitOutcome(call, region, mode, maxRanges, ranges, lvl)
       IN  /\ frame' = [index |-> call.index, level |-> call.level, outcome |-> out]
           /\ ranges' = visitRanges(call, out, mode, ranges, lvl)
           /\ stack' = IF out = "subdivide"
                       THEN subdivide(call.trixel, call.index, call.level) \o Tail(stack)
                       ELSE Tail(stack)
    /\ UNCHANGED <<pc, lvl, arg, retLevel, thrown, str, tri, region, mode, maxRanges>>
    /\ UNCHANGED indexVars

\* The traversal is over: the ranges are returned.
FindReturn ==
    /\ pc = "find"
    /\ stack = <<>>
    /\ pc' = "found"
    /\ UNCHANGED <<lvl, arg, retLevel, thrown, str, tri>>
    /\ UNCHANGED indexVars
    /\ UNCHANGED finderVars

\* The rasterizer on the regions that cross one leaf.
EnvelopeOneLeaf == Find(OneLeafRegions(lvl), "envelope")
InteriorOneLeaf == Find(OneLeafRegions(lvl), "interior")

\* The rasterizer on the regions of at most MaxPatches patches.
Envelope == lvl <= FinderLevel /\ Find(RegionsUpTo(lvl, MaxPatches), "envelope")
Interior == lvl <= FinderLevel /\ Find(RegionsUpTo(lvl, MaxPatches), "interior")

Next ==
    \/ CallLevel
    \/ CallTriangle
    \/ CallToString
    \/ Construct
    \/ Index
    \/ IndexLoop
    \/ IndexReturn
    \/ EnvelopeOneLeaf
    \/ InteriorOneLeaf
    \/ Visit
    \/ FindReturn

Spec == Init /\ [][Next]_vars

NextFinder ==
    \/ Construct
    \/ Envelope
    \/ Interior
    \/ Visit
    \/ FindReturn

SpecFinder == Init /\ [][NextFinder]_vars

(***************************************************************************)
(* Properties.                                                             *)
(***************************************************************************)
\* The 3-bit root field of a well-formed identifier.
RootField(i) == Shr(i, 2 * level(i)) % 8

\* The identifiers triangle() and toString() accept.
ValidIds == Nodes(MAX_LEVEL)

\* C1: when the rasterizer returns, the interior is a subset of the level-L
\* leaves whose triangle intersects the region, and the envelope is a superset
\* of them, whatever the interval budget.
C1_Soundness ==
    pc = "found" =>
        /\ mode = "interior" => ranges \subseteq TruePixels(region, lvl)
        /\ mode = "envelope" => TruePixels(region, lvl) \subseteq ranges

\* An envelope under a finite budget that is a strict superset of a non-empty
\* footprint, at a level where the traversal subdivides.
C1_Witness ==
    /\ pc = "found"
    /\ mode = "envelope"
    /\ lvl = 1
    /\ maxRanges = 1
    /\ TruePixels(region, lvl) # {}
    /\ TruePixels(region, lvl) # ranges
    /\ Cardinality(region.partial) = 2

\* C2: the triple index() holds when it returns i is triangle(i), and every
\* triple subdivide() (or the loop over the roots) hands to visit with an
\* index is the triangle() of that index, at the level of that index.
C2_LayoutAgrees ==
    /\ pc = "indexed" => tri = triangle(idx)
    /\ pc = "find" =>
         \A k \in 1 .. Len(stack) :
            /\ stack[k].trixel = triangle(stack[k].index)
            /\ stack[k].level = level(stack[k].index)

\* index() returned after MAX_LEVEL iterations that ended in child 2, then 3.
C2_Witness ==
    /\ pc = "indexed"
    /\ lvl = MAX_LEVEL
    /\ idx % 16 = 11

\* The sign of root r on axis a (1, 2, 3 for x, y, z): each axis has exactly
\* one vertex of the root on it.
RootAxisSign(r, a) == RootVertex(r, 0)[a] + RootVertex(r, 1)[a] + RootVertex(r, 2)[a]

\* C3 as stated: a point with y = 0 is given a root on the y >= 0 side
\* (0 or 1 when z < 0, 6 or 7 otherwise).
C3_Original ==
    (pc \in {"index", "indexed"} /\ pt[2] = 0) =>
        IF pt[3] < 0 THEN root \in {0, 1} ELSE root \in {6, 7}

\* C3 amended: a point with y = 0 is given a root of its own hemisphere that
\* lies on the y >= 0 side exactly when x >= 0; when x < 0 the root lies on
\* the y <= 0 side and on the x <= 0 side.
C3_TieRule ==
    (pc \in {"index", "indexed"} /\ pt[2] = 0) =>
        /\ root \in 0 .. 7
        /\ RootAxisSign(root, 3) = (IF pt[3] < 0 THEN -1 ELSE 1)
        /\ RootAxisSign(root, 2) = (IF pt[1] >= 0 THEN 1 ELSE -1)
        /\ RootAxisSign(root, 1) = (IF pt[1] >= 0 THEN 1 ELSE -1)

\* A point with y = 0 and x < 0 has been given its root.
C3_Witness ==
    /\ pc = "indexed"
    /\ pt[2] = 0
    /\ pt[1] < 0
    /\ root = 2

\* C4 as stated: the first character of toString(i) is 'N' when the root
\* number is odd and 'S' when it is even.
C4_Original ==
    (pc = "toString" /\ ~thrown) =>
        str[1] = (IF RootField(arg) % 2 = 1 THEN "N" ELSE "S")

\* C4 amended: the first character of toString(i) is 'N' when the root number
\* is 4..7 (the high bit of the root field is set) and 'S' when it is 0..3.
C4_Hemisphere ==
    (pc = "toString" /\ ~thrown) =>
        str[1] = (IF RootField(arg) >= 4 THEN "N" ELSE "S")

\* toString() returned for an identifier of the odd, southern root 1.
C4_Witness ==
    /\ pc = "toString"
    /\ ~thrown
    /\ RootField(arg) = 1
    /\ level(arg) = MAX_LEVEL
    /\ str[1] = "S"

\* C5: toString(i) has level(i) + 2 characters, the first 'N' or 'S', the
\* others among '0'..'3', the last level(i) of them the child codes of i,
\* shallowest first.
C5_StringShape ==
    (pc = "toString" /\ ~thrown) =>
        LET l == level(arg)
        IN  /\ Len(str) = l + 2
            /\ str[1] \in {"N", "S"}
            /\ \A k \in 2 .. Len(str) : str[k] \in {"0", "1", "2", "3"}
            /\ \A k \in 1 .. l : str[2 + k] = Digit(Shr(arg, 2 * (l - k)) % 4)

\* toString() returned for an identifier of the deepest level.
C5_Witness ==
    /\ pc = "toString"
    /\ ~thrown
    /\ level(arg) = MAX_LEVEL
    /\ arg % 4 = 3
    /\ str[1] = "N"

DigitValue(c) == CASE c = "0" -> 0 [] c = "1" -> 1 [] c = "2" -> 2 [] c = "3" -> 3

\* The identifier a canonical string spells: 1, the hemisphere bit, then the
\* digits, two bits each.
RECURSIVE Decode(_, _, _)
Decode(s, k, acc) ==
    IF k > Len(s) THEN acc ELSE Decode(s, k + 1, 4 * acc + DigitValue(s[k]))

FromString(s) == Decode(s, 2, IF s[1] = "N" THEN 3 ELSE 2)

\* C6: i is rebuilt from toString(i) alone, its level being the length less
\* 2, and no other valid identifier has the same string.
C6_RoundTrip ==
    (pc = "toString" /\ ~thrown) =>
        /\ FromString(str) = arg
        /\ level(FromString(str)) = Len(str) - 2
        /\ \A j \in ValidIds : toString(j) = str => j = arg

\* toString() returned for a deepest-level identifier of a northern root
\* whose two low root bits are not zero.
C6_Witness ==
    /\ pc = "toString"
    /\ ~thrown
    /\ level(arg) = MAX_LEVEL
    /\ RootField(arg) = 6

\* Whether bit k is the most significant set bit of i.
MsbIs(i, k) == Pow2(k) <= i /\ i < Pow2(k + 1)

\* C7: level(i) is -1 exactly when the most significant set bit of i is at an
\* even position or at position 1 (or i = 0), and (j - 3) / 2 otherwise;
\* triangle(i) and toString(i) throw exactly when that level is negative or
\* above MAX_LEVEL; the constructor throws exactly for a level outside
\* [0, MAX_LEVEL], and index() only runs with a level inside.
C7_Rejects ==
    /\ pc = "level" =>
         /\ retLevel = -1 <=> ~(\E k \in 2 .. IdBits : k % 2 = 1 /\ MsbIs(arg, k))
         /\ \A k \in 2 .. IdBits : (k % 2 = 1 /\ MsbIs(arg, k)) => 2 * retLevel + 3 = k
    /\ pc \in {"triangle", "toString"} => (thrown <=> arg \notin ValidIds)
    /\ (pc = "triangle" /\ ~thrown) => Len(tri) = 3
    /\ (pc = "toString" /\ ~thrown) => Len(str) >= 2
    /\ pc = "failed" => (thrown /\ (arg < 0 \/ arg > MAX_LEVEL) /\ lvl = -1)
    /\ pc = "ready" => (~thrown /\ arg \in 0 .. MAX_LEVEL /\ lvl = arg)
    /\ pc \in {"index", "indexed"} => lvl \in 0 .. MAX_LEVEL

\* triangle() threw for a well-formed identifier of a level above MAX_LEVEL.
C7_Witness ==
    /\ pc = "triangle"
    /\ thrown
    /\ level(arg) = MAX_LEVEL + 1

\* C8: the identifier index() returns lies in [8 * 4^L, 16 * 4^L), its level
\* is L and its root field is the root chosen in the root selection.
C8_IndexRange ==
    pc = "indexed" =>
        /\ idx \in LevelIds(lvl)
        /\ level(idx) = lvl
        /\ RootField(idx) = root

\* index() returned the last child of the last child of root 7.
C8_Witness ==
    /\ pc = "indexed"
    /\ lvl = MAX_LEVEL
    /\ root = 7
    /\ idx = 16 * Pow2(2 * lvl) - 1

\* C9: the roots are visited with the indexes 8..15 at level 0; a subdivided
\* node i of level l < L has the children 4i .. 4i+3 at level l + 1, whose
\* ranges are pairwise disjoint, each a strict subset of the range of i, and
\* together the range of i.
C9_RangesPartition ==
    /\ (pc = "find" /\ frame = NoFrame) =>
         /\ Len(stack) = 8
         /\ \A r \in 1 .. 8 : stack[r].index = 7 + r /\ stack[r].level = 0
    /\ (pc = "find" /\ frame.outcome = "subdivide") =>
         LET i == frame.index
             l == frame.level
             parent == RangeOf(i, l, lvl)
             kid(k) == RangeOf(stack[k].index, stack[k].level, lvl)
         IN  /\ l < lvl
             /\ Len(stack) >= 4
             /\ \A k \in 1 .. 4 :
                    /\ stack[k].index = 4 * i + (k - 1)
                    /\ stack[k].level = l + 1
                    /\ kid(k) \subseteq parent
                    /\ kid(k) # parent
                    /\ kid(k) # {}
             /\ \A j \in 1 .. 4, k \in 1 .. 4 : j # k => kid(j) \cap kid(k) = {}
             /\ UNION {kid(k) : k \in 1 .. 4} = parent

\* A node one level above the leaves of the deepest mesh has been subdivided.
C9_Witness ==
    /\ pc = "find"
    /\ lvl = MAX_LEVEL
    /\ frame.outcome = "subdivide"
    /\ frame.level = MAX_LEVEL - 1

\* C10: the root selection gives every point a root 0..7 in whose closed
\* octant it lies: each coordinate of the point is zero or has the sign of
\* the root vertex on that axis.
C10_RootContainsPoint ==
    pc \in {"index", "indexed"} =>
        /\ root \in 0 .. 7
        /\ \A a \in 1 .. 3 : pt[a] = 0 \/ pt[a] = RootAxisSign(root, a)

\* A pole (x = y = 0, z > 0) has been given its root.
C10_Witness ==
    /\ pc = "indexed"
    /\ pt = <<0, 0, 1>>
    /\ root = 7

=============================================================================
